---- MODULE Spec2Model ----
(***************************************************************************)
(* The instance lifecycle manager of claude-ui: ClaudeManager (the         *)
(* registry of ClaudeInstance handles, guarded by one asyncio.Lock), the   *)
(* REST handlers of api/instances.py that drive it, and the rows those     *)
(* handlers and the manager persist (instances, sessions, messages), the   *)
(* two WebSocket endpoints of api/websocket.py, and the periodic cleanup   *)
(* task of services/cleanup.py.                                            *)
(*                                                                         *)
(* Scheduling is asyncio's: one thread, a task runs from one suspension    *)
(* point (an await that really waits: storage I/O, a contended lock, the   *)
(* next event of the agent's stream) to the next without interleaving.     *)
(* Every action below is one such run of one task.                         *)
(***************************************************************************)
EXTENDS Integers, Sequences, FiniteSets, TLC

\* ------------------------------------------------------------------ bounds
\* Requests the model lets arrive; each is served by its own task.
MaxRequests == 3
\* Instance identifiers create_instance may draw (uuid4: never reused).
NumIds == 3
\* Texts one query may collect in response_content before its stream ends or
\* raises (messages without text are not limited).
MaxTexts == 2
\* Requests of the client that sends them one after the other (SerialSpec).
MaxSerialRequests == 5
\* Concurrent requests of LifecycleSpec.
MaxLifecycleRequests == 4

\* settings.max_instances: read from the environment by Settings; the model
\* runs the server configured with a capacity of 2 (the default is 5).
max_instances == 2

Tasks == 1..MaxRequests
SerialTasks == 1..MaxSerialRequests
LifecycleTasks == 1..MaxLifecycleRequests
Ids == 1..NumIds
None == 0

VARIABLES
    instances,      \* ClaudeManager.instances: instance id -> handle object
    handles,        \* every ClaudeInstance object constructed so far (the heap)
    lock_holder,    \* ClaudeManager._lock: the task holding it, or None
    waiters,        \* ClaudeManager._lock: tasks queued on it, in arrival order
    rows,           \* table instances: id -> [status, terminated_at]
    sessions,       \* table sessions: id -> [instance_id, status]
    messages,       \* table messages, in insertion order
    now,            \* datetime.utcnow(), as a logical clock
    seq,            \* fresh identifiers: uuid4 draws and the autoincrement key
    active_connections, \* api/websocket.py: instance id -> the task whose
                    \* WebSocket is registered for it
    tasks           \* the request tasks: position and locals of each

vars == <<instances, handles, lock_holder, waiters, rows, sessions, messages,
          now, seq, active_connections, tasks>>
mem == <<instances, handles, lock_holder, waiters>>
db == <<rows, sessions, messages, now>>

\* -------------------------------------------------------------- data types
\* ClaudeInstance.__init__
ClaudeInstance(instance_id) ==
    [instance_id |-> instance_id, active |-> TRUE, current_session_id |-> None]

\* Column defaults of a new Instance row.
NewInstanceRow == [status |-> "inactive", terminated_at |-> None]

\* The messages of claude_code_sdk a stream yields: an AssistantMessage carries
\* content blocks (TextBlock or another kind), other messages carry none.
TextBlock(text) == [type |-> "text", text |-> text]
ToolUseBlock == [type |-> "tool_use", text |-> ""]
AssistantMessage(content) == [type |-> "assistant", content |-> content]
ResultMessage == [type |-> "result", content |-> <<>>]
Events ==
    { AssistantMessage(<<TextBlock("Hi")>>),
      AssistantMessage(<<ToolUseBlock, TextBlock(" there")>>),
      ResultMessage }
\* The prompt of every query.
Prompt == "hello"

\* A request task before its request has arrived.
IdleTask ==
    [pc |-> "idle", op |-> "none", id |-> None, err |-> "none",
     handle |-> None, session_id |-> None, response_content |-> <<>>,
     loaded |-> [s |-> {}, m |-> {}], sent |-> <<>>, read |-> FALSE,
     terminated_instances |-> {}]

Init ==
    /\ instances = <<>>
    /\ handles = <<>>
    /\ lock_holder = None
    /\ waiters = <<>>
    /\ rows = <<>>
    /\ sessions = <<>>
    /\ messages = <<>>
    /\ now = 1
    /\ seq = [instance |-> 0, session |-> 0, message |-> 0]
    /\ active_connections = <<>>
    /\ tasks = [t \in Tasks \cup SerialTasks \cup LifecycleTasks |-> IdleTask]

\* dict without a key (del d[k])
Without(f, k) == [x \in DOMAIN f \ {k} |-> f[x]]

\* ------------------------------------------------ task positions, outcomes
\* In the operators below `tk` is the task table as the running step has
\* left it so far, `lh` and `ws` the lock (holder, queue) likewise.
Goto(tk, t, label) == [tk EXCEPT ![t].pc = label]
\* The request ends: its handler returned ("ok") or raised.
Done(tk, t, outcome) == [tk EXCEPT ![t].pc = "done", ![t].err = outcome]

\* What a handler does with an exception out of start_instance:
\* api create_instance marks the row `error` (one more commit); the restart
\* and update handlers let it end the request.
start_instance_raised(tk, t, e) ==
    IF tk[t].op = "create"
    THEN [tk EXCEPT ![t].pc = "create_error_commit", ![t].err = e]
    ELSE Done(tk, t, e)

\* ----------------------------------------------- ClaudeManager.start_instance
\* start_instance_locked without its first check (`if db_instance.id in
\* self.instances: raise`): the assignment replaces the entry.
start_instance_locked_unchecked(tk, t, ws) ==
    LET id == tk[t].id IN
    IF Cardinality(DOMAIN instances) >= max_instances
    THEN /\ UNCHANGED <<instances, handles>>
         /\ lock_holder' = None
         /\ waiters' = ws
         /\ tasks' = start_instance_raised(tk, t, "CapacityExceeded")
    ELSE /\ handles' = Append(handles, ClaudeInstance(id))
         /\ instances' = (id :> (Len(handles) + 1)) @@ instances
         /\ lock_holder' = t
         /\ waiters' = ws
         /\ tasks' = Goto(tk, t, "start_db")

\* start_instance_locked with the limit compared by > instead of >=.
start_instance_locked_off_by_one(tk, t, ws) ==
    LET id == tk[t].id IN
    IF id \in DOMAIN instances
    THEN /\ UNCHANGED <<instances, handles>>
         /\ lock_holder' = None
         /\ waiters' = ws
         /\ tasks' = start_instance_raised(tk, t, "AlreadyRunning")
    ELSE IF Cardinality(DOMAIN instances) > max_instances
    THEN /\ UNCHANGED <<instances, handles>>
         /\ lock_holder' = None
         /\ waiters' = ws
         /\ tasks' = start_instance_raised(tk, t, "CapacityExceeded")
    ELSE /\ handles' = Append(handles, ClaudeInstance(id))
         /\ instances' = (id :> (Len(handles) + 1)) @@ instances
         /\ lock_holder' = t
         /\ waiters' = ws
         /\ tasks' = Goto(tk, t, "start_db")

\* start_instance_locked with its capacity test counting every handle ever
\* constructed, so that a terminated instance keeps its slot.
start_instance_locked_slots_spent(tk, t, ws) ==
    LET id == tk[t].id IN
    IF id \in DOMAIN instances
    THEN /\ UNCHANGED <<instances, handles>>
         /\ lock_holder' = None
         /\ waiters' = ws
         /\ tasks' = start_instance_raised(tk, t, "AlreadyRunning")
    ELSE IF Len(handles) >= max_instances
    THEN /\ UNCHANGED <<instances, handles>>
         /\ lock_holder' = None
         /\ waiters' = ws
         /\ tasks' = start_instance_raised(tk, t, "CapacityExceeded")
    ELSE /\ handles' = Append(handles, ClaudeInstance(id))
         /\ instances' = (id :> (Len(handles) + 1)) @@ instances
         /\ lock_holder' = t
         /\ waiters' = ws
         /\ tasks' = Goto(tk, t, "start_db")

\* The lines of start_instance run once the lock is held, up to the await of
\* the storage update: the two checks, the working directory (no state of the
\* model) and the insertion of the new handle.
\* `ws` is the queue of the lock once t has it.
start_instance_locked(tk, t, ws) ==
    LET id == tk[t].id IN
    IF id \in DOMAIN instances
    THEN /\ UNCHANGED <<instances, handles>>
         /\ lock_holder' = None
         /\ waiters' = ws
         /\ tasks' = start_instance_raised(tk, t, "AlreadyRunning")
    ELSE IF Cardinality(DOMAIN instances) >= max_instances
    THEN /\ UNCHANGED <<instances, handles>>
         /\ lock_holder' = None
         /\ waiters' = ws
         /\ tasks' = start_instance_raised(tk, t, "CapacityExceeded")
    ELSE /\ handles' = Append(handles, ClaudeInstance(id))
         /\ instances' = (id :> (Len(handles) + 1)) @@ instances
         /\ lock_holder' = t
         /\ waiters' = ws
         /\ tasks' = Goto(tk, t, "start_db")

\* `async with self._lock` of start_instance, with the lock in state (lh, ws):
\* asyncio.Lock.acquire returns at once when the lock is free and nobody
\* waits, and queues the task otherwise.
start_instance(tk, t, lh, ws) ==
    IF lh = None /\ ws = <<>>
    THEN start_instance_locked(tk, t, ws)
    ELSE /\ UNCHANGED <<instances, handles>>
         /\ lock_holder' = lh
         /\ waiters' = Append(ws, t)
         /\ tasks' = Goto(tk, t, "start_wait")

\* The storage update of start_instance (db.get, status, commit), the release
\* of the lock, and the return to the handler, which returns in turn (the
\* commit that ends api restart_instance has nothing to write). Without the
\* row, db.get gives None and the update raises, the handle left in place.
start_instance_db(t) ==
    /\ UNCHANGED active_connections
    /\ tasks[t].pc = "start_db"
    /\ lock_holder = t
    /\ UNCHANGED <<instances, handles, waiters, sessions, messages, now, seq>>
    /\ lock_holder' = None
    /\ IF tasks[t].id \in DOMAIN rows
       THEN /\ rows' = [rows EXCEPT ![tasks[t].id].status = "active"]
            /\ tasks' = Done(tasks, t, "ok")
       ELSE /\ rows' = rows
            /\ tasks' = start_instance_raised(tasks, t, "RowMissing")

\* ------------------------------------------- ClaudeManager.terminate_instance
\* terminate_instance has returned to its caller, the lock released:
\* api delete_instance goes on to db.delete, restart_instance to start_instance.
terminate_instance_returned(tk, t, ws) ==
    IF tk[t].op = "delete"
    THEN /\ UNCHANGED <<instances, handles>>
         /\ lock_holder' = None
         /\ waiters' = ws
         /\ tasks' = Goto(tk, t, "delete_load")
    ELSE start_instance(tk, t, None, ws)

\* terminate_instance_locked without its early return for an identifier the
\* registry does not hold (the entry dropped with pop(id, None) instead): the
\* storage update runs on every call.
terminate_instance_locked_always(tk, t, ws) ==
    LET id == tk[t].id IN
    /\ handles' = IF id \in DOMAIN instances
                  THEN [handles EXCEPT ![instances[id]].active = FALSE]
                  ELSE handles
    /\ instances' = Without(instances, id)
    /\ lock_holder' = t
    /\ waiters' = ws
    /\ tasks' = Goto(tk, t, "terminate_db")

\* terminate_instance_locked with the entry still in the registry while the
\* storage update is awaited (the flag cleared, the `del` left out).
terminate_instance_locked_keeps_entry(tk, t, ws) ==
    LET id == tk[t].id IN
    IF id \notin DOMAIN instances
    THEN terminate_instance_returned(tk, t, ws)
    ELSE /\ handles' = [handles EXCEPT ![instances[id]].active = FALSE]
         /\ instances' = instances
         /\ lock_holder' = t
         /\ waiters' = ws
         /\ tasks' = [tk EXCEPT ![t].pc = "terminate_db",
                                ![t].handle = instances[id]]

\* The lines of terminate_instance run once the lock is held, up to the await
\* of the storage update; `handle` is its local `instance`, the handle found
\* in the registry.
terminate_instance_locked(tk, t, ws) ==
    LET id == tk[t].id IN
    IF id \notin DOMAIN instances
    THEN terminate_instance_returned(tk, t, ws)
    ELSE /\ handles' = [handles EXCEPT ![instances[id]].active = FALSE]
         /\ instances' = Without(instances, id)
         /\ lock_holder' = t
         /\ waiters' = ws
         /\ tasks' = [tk EXCEPT ![t].pc = "terminate_db",
                                ![t].handle = instances[id]]

\* `async with self._lock` of terminate_instance.
terminate_instance(tk, t, lh, ws) ==
    IF lh = None /\ ws = <<>>
    THEN terminate_instance_locked(tk, t, ws)
    ELSE /\ UNCHANGED <<instances, handles>>
         /\ lock_holder' = lh
         /\ waiters' = Append(ws, t)
         /\ tasks' = Goto(tk, t, "terminate_wait")

\* The storage update of terminate_instance, the release of the lock, and the
\* return to the caller. No handler catches its exception to do more.
terminate_instance_db(t) ==
    /\ UNCHANGED active_connections
    /\ tasks[t].pc = "terminate_db"
    /\ lock_holder = t
    /\ UNCHANGED <<sessions, messages, seq>>
    /\ IF tasks[t].id \in DOMAIN rows
       THEN /\ rows' = [rows EXCEPT ![tasks[t].id] =
                            [status |-> "terminated", terminated_at |-> now]]
            /\ now' = now + 1
            /\ terminate_instance_returned(tasks, t, waiters)
       ELSE /\ UNCHANGED <<rows, now, instances, handles, waiters>>
            /\ lock_holder' = None
            /\ tasks' = Done(tasks, t, "RowMissing")

\* ClaudeManager.restart_instance: terminate if running, then start again.
restart_instance(tk, t, lh, ws) ==
    IF tk[t].id \in DOMAIN instances
    THEN terminate_instance(tk, t, lh, ws)
    ELSE start_instance(tk, t, lh, ws)

\* The lock passes to the task at the head of its queue.
lock_wake(t) ==
    /\ UNCHANGED active_connections
    /\ lock_holder = None
    /\ waiters # <<>>
    /\ Head(waiters) = t
    /\ UNCHANGED <<db, seq>>
    /\ IF tasks[t].pc = "start_wait"
       THEN start_instance_locked(tasks, t, Tail(waiters))
       ELSE terminate_instance_locked(tasks, t, Tail(waiters))

\* --------------------------------------------------------- api/instances.py
\* A request arrives: the next free task takes it.
Arrives(t) ==
    /\ tasks[t].pc = "idle"
    /\ \A u \in DOMAIN tasks : u < t => tasks[u].pc # "idle"
Request(t, op, id) == [tasks EXCEPT ![t].op = op, ![t].id = id]
Created == 1..seq.instance

\* POST /: create_instance up to its first commit: a fresh identifier (uuid4),
\* the new row.
api_create_instance(t) ==
    /\ UNCHANGED active_connections
    /\ Arrives(t)
    /\ seq.instance < NumIds
    /\ seq' = [seq EXCEPT !.instance = @ + 1]
    /\ rows' = ((seq.instance + 1) :> NewInstanceRow) @@ rows
    /\ tasks' = Goto(Request(t, "create", seq.instance + 1), t, "create_refresh")
    /\ UNCHANGED <<mem, sessions, messages, now>>

\* db.refresh(instance), then the call of start_instance.
api_create_instance_refresh(t) ==
    /\ UNCHANGED active_connections
    /\ tasks[t].pc = "create_refresh"
    /\ UNCHANGED <<db, seq>>
    /\ IF tasks[t].id \in DOMAIN rows
       THEN start_instance(tasks, t, lock_holder, waiters)
       ELSE /\ tasks' = Done(tasks, t, "InvalidRequest")
            /\ UNCHANGED mem

\* except-branch of create_instance: instance.status = "error", commit, and
\* the HTTPException that ends the request with the error already recorded.
api_create_instance_error(t) ==
    /\ UNCHANGED active_connections
    /\ tasks[t].pc = "create_error_commit"
    /\ UNCHANGED <<mem, sessions, messages, now, seq>>
    /\ rows' = IF tasks[t].id \in DOMAIN rows
               THEN [rows EXCEPT ![tasks[t].id].status = "error"]
               ELSE rows
    /\ tasks' = Goto(tasks, t, "done")

\* DELETE /{id}: db.get, 404 without a row, terminate_instance when the row
\* read says `active`, then db.delete.
api_delete_instance(t, id) ==
    /\ UNCHANGED active_connections
    /\ Arrives(t)
    /\ UNCHANGED <<db, seq>>
    /\ LET tk == Request(t, "delete", id) IN
       IF id \notin DOMAIN rows
       THEN /\ tasks' = Done(tk, t, "404")
            /\ UNCHANGED mem
       ELSE IF rows[id].status = "active"
       THEN terminate_instance(tk, t, lock_holder, waiters)
       ELSE /\ tasks' = Goto(tk, t, "delete_load")
            /\ UNCHANGED mem

\* await db.delete(instance): the cascade loads the instance's sessions and
\* their messages and marks them, with the instance, for deletion.
api_delete_instance_load(t) ==
    /\ UNCHANGED active_connections
    /\ tasks[t].pc = "delete_load"
    /\ UNCHANGED <<mem, db, seq>>
    /\ LET s == {x \in DOMAIN sessions : sessions[x].instance_id = tasks[t].id}
           m == {messages[i].id : i \in {j \in DOMAIN messages :
                                         messages[j].session_id \in s}}
       IN tasks' = [tasks EXCEPT ![t].pc = "delete_commit",
                                 ![t].loaded = [s |-> s, m |-> m]]

\* await db.commit() of delete_instance: the marked rows go.
api_delete_instance_commit(t) ==
    /\ UNCHANGED active_connections
    /\ tasks[t].pc = "delete_commit"
    /\ UNCHANGED <<mem, now, seq>>
    /\ rows' = Without(rows, tasks[t].id)
    /\ sessions' = [x \in DOMAIN sessions \ tasks[t].loaded.s |-> sessions[x]]
    /\ messages' = LET keep(msg) == msg.id \notin tasks[t].loaded.m
                   IN SelectSeq(messages, keep)
    /\ tasks' = [tasks EXCEPT ![t].pc = "done", ![t].err = "ok",
                              ![t].loaded = [s |-> {}, m |-> {}]]

\* POST /{id}/restart: db.get, 404 without a row, restart_instance; any
\* exception ends the request with a 500.
api_restart_instance(t, id) ==
    /\ UNCHANGED active_connections
    /\ Arrives(t)
    /\ UNCHANGED <<db, seq>>
    /\ LET tk == Request(t, "restart", id) IN
       IF id \notin DOMAIN rows
       THEN /\ tasks' = Done(tk, t, "404")
            /\ UNCHANGED mem
       ELSE restart_instance(tk, t, lock_holder, waiters)

\* PUT /{id}: db.get, 404 without a row, the fields set and committed.
api_update_instance(t, id) ==
    /\ UNCHANGED active_connections
    /\ Arrives(t)
    /\ UNCHANGED <<mem, db, seq>>
    /\ LET tk == Request(t, "update", id) IN
       IF id \notin DOMAIN rows
       THEN tasks' = Done(tk, t, "404")
       ELSE tasks' = Goto(tk, t, "update_refresh")

\* db.refresh(instance) of update_instance, and restart_instance when the row
\* now read says `active`.
api_update_instance_refresh(t) ==
    /\ UNCHANGED active_connections
    /\ tasks[t].pc = "update_refresh"
    /\ UNCHANGED <<db, seq>>
    /\ IF tasks[t].id \notin DOMAIN rows
       THEN /\ tasks' = Done(tasks, t, "InvalidRequest")
            /\ UNCHANGED mem
       ELSE IF rows[tasks[t].id].status = "active"
       THEN restart_instance(tasks, t, lock_holder, waiters)
       ELSE /\ tasks' = Done(tasks, t, "ok")
            /\ UNCHANGED mem

\* ----------------------------------------------- ClaudeManager.query_instance
\* str.join
RECURSIVE join(_, _)
join(sep, parts) ==
    IF parts = <<>> THEN ""
    ELSE IF Len(parts) = 1 THEN parts[1]
    ELSE parts[1] \o sep \o join(sep, Tail(parts))

\* The text of the TextBlocks of one streamed message, in order; nothing for
\* a message that is no AssistantMessage.
text_blocks(message) ==
    IF message.type = "assistant"
    THEN LET is_text(b) == b.type = "text"
             texts == SelectSeq(message.content, is_text)
         IN [i \in DOMAIN texts |-> texts[i].text]
    ELSE <<>>

\* assistant_content joining with the empty string.
assistant_content_concatenated(response_content) == join("", response_content)

\* The content of the assistant message built from response_content.
assistant_content(response_content) == join("\n", response_content)

\* api_query_instance without the registry test of query_instance (`if
\* instance_id not in self.instances`): the session is opened all the same.
api_query_instance_unchecked(t, id) ==
    /\ UNCHANGED active_connections
    /\ Arrives(t)
    /\ UNCHANGED <<db, instances, lock_holder, waiters>>
    /\ LET tk == Request(t, "query", id) IN
       IF id \notin DOMAIN rows
       THEN /\ tasks' = Done(tk, t, "404")
            /\ UNCHANGED <<handles, seq>>
       ELSE IF rows[id].status # "active"
       THEN /\ tasks' = Done(tk, t, "400")
            /\ UNCHANGED <<handles, seq>>
       ELSE /\ seq' = [seq EXCEPT !.session = @ + 1]
            /\ handles' = IF id \in DOMAIN instances
                          THEN [handles EXCEPT
                                  ![instances[id]].current_session_id = seq.session + 1]
                          ELSE handles
            /\ tasks' = [tk EXCEPT ![t].pc = "query_commit",
                                   ![t].handle = IF id \in DOMAIN instances
                                                 THEN instances[id] ELSE None,
                                   ![t].session_id = seq.session + 1]

\* POST /{id}/query and query_instance up to its first commit: 404 without a
\* row, 400 unless the row says `active`, ValueError without a registry
\* entry; then a fresh session id, recorded on the handle.
api_query_instance(t, id) ==
    /\ UNCHANGED active_connections
    /\ Arrives(t)
    /\ UNCHANGED <<db, instances, lock_holder, waiters>>
    /\ LET tk == Request(t, "query", id) IN
       IF id \notin DOMAIN rows
       THEN /\ tasks' = Done(tk, t, "404")
            /\ UNCHANGED <<handles, seq>>
       ELSE IF rows[id].status # "active"
       THEN /\ tasks' = Done(tk, t, "400")
            /\ UNCHANGED <<handles, seq>>
       ELSE IF id \notin DOMAIN instances
       THEN /\ tasks' = Done(tk, t, "NotFound")
            /\ UNCHANGED <<handles, seq>>
       ELSE /\ seq' = [seq EXCEPT !.session = @ + 1]
            /\ handles' = [handles EXCEPT
                             ![instances[id]].current_session_id = seq.session + 1]
            /\ tasks' = [tk EXCEPT ![t].pc = "query_commit",
                                   ![t].handle = instances[id],
                                   ![t].session_id = seq.session + 1]

\* The first commit of query_instance: the session row and the user message.
query_instance_commit(t) ==
    /\ UNCHANGED active_connections
    /\ tasks[t].pc = "query_commit"
    /\ UNCHANGED <<mem, rows>>
    /\ sessions' = (tasks[t].session_id :>
                      [instance_id |-> tasks[t].id, status |-> "active"]) @@ sessions
    /\ messages' = Append(messages,
                      [id |-> seq.message + 1, session_id |-> tasks[t].session_id,
                       role |-> "user", content |-> Prompt, timestamp |-> now])
    /\ seq' = [seq EXCEPT !.message = @ + 1]
    /\ now' = now + 1
    /\ tasks' = Goto(tasks, t, "query_stream")

\* One turn of `async for message in instance.query(...)`: the stream yields
\* a message, whose text blocks are appended to response_content.
query_instance_message(t, message) ==
    /\ UNCHANGED active_connections
    /\ tasks[t].pc = "query_stream"
    /\ Len(tasks[t].response_content) + Len(text_blocks(message)) <= MaxTexts
    /\ UNCHANGED <<mem, db, seq>>
    /\ tasks' = [tasks EXCEPT
                   ![t].response_content = @ \o text_blocks(message)]

\* The stream ends: the assistant message and the `completed` status are
\* built and the second commit awaited.
query_instance_end(t) ==
    /\ UNCHANGED active_connections
    /\ tasks[t].pc = "query_stream"
    /\ UNCHANGED <<mem, db, seq>>
    /\ tasks' = Goto(tasks, t, "query_complete")

\* The stream raises: `error` is set on the session and its commit awaited.
query_instance_fault(t) ==
    /\ UNCHANGED active_connections
    /\ tasks[t].pc = "query_stream"
    /\ UNCHANGED <<mem, db, seq>>
    /\ tasks' = [tasks EXCEPT ![t].pc = "query_error_commit",
                              ![t].err = "AgentFault",
                              ![t].response_content = <<>>]

\* The task is cancelled while it waits for the next message of the stream:
\* asyncio.CancelledError is raised at the `async for`. It is a BaseException,
\* so neither `except Exception` of query_instance nor that of the route
\* catches it: nothing more is written and the task ends.
query_instance_cancelled(t) ==
    /\ UNCHANGED active_connections
    /\ tasks[t].pc = "query_stream"
    /\ UNCHANGED <<mem, db, seq>>
    /\ tasks' = [tasks EXCEPT ![t].pc = "done",
                              ![t].err = "Cancelled",
                              ![t].response_content = <<>>]

\* query_instance_complete without the assistant message added to the
\* transaction.
query_instance_complete_no_message(t) ==
    /\ UNCHANGED active_connections
    /\ tasks[t].pc = "query_complete"
    /\ UNCHANGED <<mem, rows, messages, seq, now>>
    /\ IF tasks[t].session_id \in DOMAIN sessions
       THEN /\ sessions' = [sessions EXCEPT ![tasks[t].session_id].status = "completed"]
            /\ tasks' = [tasks EXCEPT ![t].pc = "done", ![t].err = "ok",
                                      ![t].response_content = <<>>]
       ELSE /\ UNCHANGED sessions
            /\ tasks' = [tasks EXCEPT ![t].pc = "query_error_commit",
                                      ![t].err = "StaleData",
                                      ![t].response_content = <<>>]

\* The second commit: the assistant message inserted and the session updated
\* in one transaction. It raises (StaleDataError), persisting nothing, when the
\* session row is gone; the except-branch then runs as for a fault.
query_instance_complete(t) ==
    /\ UNCHANGED active_connections
    /\ tasks[t].pc = "query_complete"
    /\ UNCHANGED <<mem, rows>>
    /\ IF tasks[t].session_id \in DOMAIN sessions
       THEN /\ messages' = Append(messages,
                      [id |-> seq.message + 1, session_id |-> tasks[t].session_id,
                       role |-> "assistant",
                       content |-> assistant_content(tasks[t].response_content),
                       timestamp |-> now])
            /\ sessions' = [sessions EXCEPT ![tasks[t].session_id].status = "completed"]
            /\ seq' = [seq EXCEPT !.message = @ + 1]
            /\ now' = now + 1
            /\ tasks' = [tasks EXCEPT ![t].pc = "done", ![t].err = "ok",
                                      ![t].response_content = <<>>]
       ELSE /\ UNCHANGED <<messages, sessions, seq, now>>
            /\ tasks' = [tasks EXCEPT ![t].pc = "query_error_commit",
                                      ![t].err = "StaleData",
                                      ![t].response_content = <<>>]

\* query_instance_error without the commit of the `error` status.
query_instance_error_uncommitted(t) ==
    /\ UNCHANGED active_connections
    /\ tasks[t].pc = "query_error_commit"
    /\ UNCHANGED <<mem, db, seq>>
    /\ tasks' = Goto(tasks, t, "done")

\* query_instance_error taking the handle of the failed query out of the
\* registry as well.
query_instance_error_drops_handle(t) ==
    /\ UNCHANGED active_connections
    /\ tasks[t].pc = "query_error_commit"
    /\ UNCHANGED <<handles, lock_holder, waiters, rows, messages, now, seq>>
    /\ instances' = Without(instances, tasks[t].id)
    /\ sessions' = IF tasks[t].session_id \in DOMAIN sessions
                   THEN [sessions EXCEPT ![tasks[t].session_id].status = "error"]
                   ELSE sessions
    /\ tasks' = Goto(tasks, t, "done")

\* query_instance_error persisting what the stream had given before the
\* fault as an assistant message, with the `error` status.
query_instance_error_keeps_partial(t) ==
    /\ UNCHANGED active_connections
    /\ tasks[t].pc = "query_error_commit"
    /\ UNCHANGED <<mem, rows, now>>
    /\ sessions' = IF tasks[t].session_id \in DOMAIN sessions
                   THEN [sessions EXCEPT ![tasks[t].session_id].status = "error"]
                   ELSE sessions
    /\ messages' = Append(messages,
                      [id |-> seq.message + 1, session_id |-> tasks[t].session_id,
                       role |-> "assistant",
                       content |-> assistant_content(tasks[t].response_content),
                       timestamp |-> now])
    /\ seq' = [seq EXCEPT !.message = @ + 1]
    /\ tasks' = Goto(tasks, t, "done")

\* except-branch of query_instance: the commit of session.status = "error",
\* then the exception re-raised, which the handler turns into a 500.
query_instance_error(t) ==
    /\ UNCHANGED active_connections
    /\ tasks[t].pc = "query_error_commit"
    /\ UNCHANGED <<mem, rows, messages, now, seq>>
    /\ sessions' = IF tasks[t].session_id \in DOMAIN sessions
                   THEN [sessions EXCEPT ![tasks[t].session_id].status = "error"]
                   ELSE sessions
    /\ tasks' = Goto(tasks, t, "done")

\* ClaudeManager.cleanup_terminated_instances on a registry: the registry it
\* leaves, the entries whose handle has its flag cleared deleted.
cleanup_terminated_instances(registry) ==
    LET terminated_ids == {id \in DOMAIN registry : ~handles[registry[id]].active}
    IN [id \in DOMAIN registry \ terminated_ids |-> registry[id]]

\* ------------------------------------------------------- services/cleanup.py
\* timedelta(hours=1) in ticks of the clock `now`: far more ticks than the
\* writes of one run of the model advance it by.
Hour == 100

\* The loop of cleanup_task is sequential: no iteration starts before the
\* one before it has ended.
CleanupRunning == \E u \in DOMAIN tasks :
                     tasks[u].op = "cleanup" /\ tasks[u].pc # "done"

\* One iteration of cleanup_task up to the select of
\* cleanup_inactive_instances (cleanup_old_sessions before it finds no
\* session older than max_session_age_days): the rows that say `terminated`
\* with terminated_at before the cutoff. Without any the iteration is over.
cleanup_inactive_instances(t) ==
    /\ UNCHANGED active_connections
    /\ Arrives(t)
    /\ ~CleanupRunning
    /\ UNCHANGED <<mem, db, seq>>
    /\ LET cutoff_time == now - Hour
           result == {id \in DOMAIN rows :
                        /\ rows[id].status = "terminated"
                        /\ rows[id].terminated_at # None
                        /\ rows[id].terminated_at < cutoff_time}
           tk == Request(t, "cleanup", None)
       IN IF result = {}
          THEN tasks' = Done(tk, t, "ok")
          ELSE tasks' = [tk EXCEPT ![t].pc = "cleanup_load",
                                   ![t].terminated_instances = result]

\* `await db.delete(instance)` for each row selected: the cascade loads the
\* sessions of these instances and their messages.
cleanup_inactive_instances_load(t) ==
    /\ UNCHANGED active_connections
    /\ tasks[t].pc = "cleanup_load"
    /\ UNCHANGED <<mem, db, seq>>
    /\ LET s == {x \in DOMAIN sessions :
                    sessions[x].instance_id \in tasks[t].terminated_instances}
           m == {messages[i].id : i \in {j \in DOMAIN messages :
                                         messages[j].session_id \in s}}
       IN tasks' = [tasks EXCEPT ![t].pc = "cleanup_commit",
                                 ![t].loaded = [s |-> s, m |-> m]]

\* `await db.commit()` of cleanup_inactive_instances: the rows selected are
\* deleted by their keys, whatever their status has become since the select.
cleanup_inactive_instances_commit(t) ==
    /\ UNCHANGED active_connections
    /\ tasks[t].pc = "cleanup_commit"
    /\ UNCHANGED <<mem, now, seq>>
    /\ rows' = [id \in DOMAIN rows \ tasks[t].terminated_instances |-> rows[id]]
    /\ sessions' = [x \in DOMAIN sessions \ tasks[t].loaded.s |-> sessions[x]]
    /\ messages' = LET keep(msg) == msg.id \notin tasks[t].loaded.m
                   IN SelectSeq(messages, keep)
    /\ tasks' = [tasks EXCEPT ![t].pc = "done", ![t].err = "ok",
                              ![t].loaded = [s |-> {}, m |-> {}]]

\* ---------------------------------------------------------- api/websocket.py
\* The registry of the ClaudeManager that api/websocket.py constructs for
\* itself. No code calls start_instance on that manager, so this registry is
\* the empty dict of its construction in every state.
websocket_instances == <<>>
\* An instance id that no create_instance has drawn.
NoSuchId == NumIds + 1
\* An event sent to the client (send_json; the timestamp is left out).
WSEvent(type, data) == [type |-> type, data |-> data]
\* The `type` of a control message a client may send.
ControlTypes == {"ping", "status", "query", "other"}

\* ClaudeManager.get_instance_status on a registry.
get_instance_status(registry, id) ==
    IF id \in DOMAIN registry
    THEN IF handles[registry[id]].active THEN "active" ELSE "inactive"
    ELSE "terminated"

\* The finally of an endpoint with the entry left in active_connections.
websocket_finally_keeps(t) == active_connections
\* The finally of an endpoint: websocket_stream_endpoint deletes the entry of
\* its instance id if there is one, websocket_interact_endpoint only logs.
websocket_finally(t) ==
    IF tasks[t].op = "ws_stream" /\ tasks[t].id \in DOMAIN active_connections
    THEN Without(active_connections, tasks[t].id)
    ELSE active_connections

\* /instances/{id}/stream: accept, the WebSocket registered under the instance
\* id (replacing another one registered there), up to the await of db.get.
websocket_stream_endpoint(t, id) ==
    /\ Arrives(t)
    /\ active_connections' = (id :> t) @@ active_connections
    /\ tasks' = Goto(Request(t, "ws_stream", id), t, "ws_verify")
    /\ UNCHANGED <<mem, db, seq>>

\* /instances/{id}/interact: accept, up to the await of db.get.
websocket_interact_endpoint(t, id) ==
    /\ Arrives(t)
    /\ tasks' = Goto(Request(t, "ws_interact", id), t, "ws_verify")
    /\ UNCHANGED <<mem, db, seq, active_connections>>

\* websocket_verify going on to the status event and the receive loop after
\* the error event (no close, no return).
websocket_verify_no_return(t) ==
    /\ tasks[t].pc = "ws_verify"
    /\ UNCHANGED <<mem, db, seq, active_connections>>
    /\ IF tasks[t].id \notin DOMAIN rows \/ rows[tasks[t].id].status # "active"
       THEN tasks' = [tasks EXCEPT
                ![t].pc = "ws_receive",
                ![t].sent = <<WSEvent("error", "Instance not found or not active"),
                              WSEvent("status", "Connected to instance")>>]
       ELSE tasks' = [tasks EXCEPT
                ![t].pc = "ws_receive",
                ![t].sent = <<WSEvent("status", "Connected to instance")>>]

\* Both endpoints: db.get returns; without an `active` row the error event
\* is sent, otherwise the first status event.
websocket_verify(t) ==
    /\ tasks[t].pc = "ws_verify"
    /\ UNCHANGED <<mem, db, seq, active_connections>>
    /\ IF tasks[t].id \notin DOMAIN rows \/ rows[tasks[t].id].status # "active"
       THEN tasks' = [tasks EXCEPT
                ![t].pc = "ws_close",
                ![t].sent = <<WSEvent("error", "Instance not found or not active")>>]
       ELSE tasks' = [tasks EXCEPT
                ![t].pc = "ws_receive",
                ![t].sent = <<WSEvent("status",
                                IF tasks[t].op = "ws_stream"
                                THEN "Connected to instance"
                                ELSE "Ready for interaction")>>]

\* Both endpoints after the error event: websocket.close(), return, finally.
websocket_close(t) ==
    /\ tasks[t].pc = "ws_close"
    /\ UNCHANGED <<mem, db, seq>>
    /\ active_connections' = websocket_finally(t)
    /\ tasks' = Done(tasks, t, "rejected")

\* receive_json returns a control message of this type, and the endpoint
\* answers it; `sent` then holds the events sent since that message was read.
\* The stream endpoint answers ping and status; the interact endpoint
\* acknowledges a query and goes on to serve it.
websocket_receive(t, type) ==
    /\ tasks[t].pc = "ws_receive"
    /\ UNCHANGED <<mem, db, seq, active_connections>>
    /\ LET answer ==
             IF tasks[t].op = "ws_stream" /\ type = "ping"
             THEN <<WSEvent("pong", "")>>
             ELSE IF tasks[t].op = "ws_stream" /\ type = "status"
             THEN <<WSEvent("status",
                            get_instance_status(websocket_instances, tasks[t].id))>>
             ELSE IF tasks[t].op = "ws_interact" /\ type = "query"
             THEN <<WSEvent("status", "Processing query...")>>
             ELSE <<>>
       IN tasks' = [tasks EXCEPT
                ![t].read = TRUE,
                ![t].sent = answer,
                ![t].pc = IF tasks[t].op = "ws_interact" /\ type = "query"
                          THEN "ws_query" ELSE "ws_receive"]

\* websocket_query with the ValueError swallowed: no error event is sent.
websocket_query_silent(t) ==
    /\ tasks[t].pc = "ws_query"
    /\ UNCHANGED <<mem, db, seq, active_connections>>
    /\ tasks' = Goto(tasks, t, "ws_receive")

\* The interact endpoint serves a query: the handle is looked up in the
\* registry of the module's own manager; without it ValueError is raised,
\* caught, and the error event sent, and the endpoint waits for the next
\* control message. With a handle the endpoint would go on to its stream.
websocket_query(t) ==
    /\ tasks[t].pc = "ws_query"
    /\ UNCHANGED <<mem, db, seq, active_connections>>
    /\ IF tasks[t].id \in DOMAIN websocket_instances
       THEN tasks' = [tasks EXCEPT ![t].pc = "ws_output",
                                   ![t].handle = websocket_instances[tasks[t].id]]
       ELSE tasks' = [tasks EXCEPT
                ![t].pc = "ws_receive",
                ![t].sent = Append(@, WSEvent("error",
                               "Query error: Instance not found in manager"))]

\* The client goes away: the pending receive_json raises WebSocketDisconnect,
\* or the pending send or close raises, and the endpoint ends through its
\* finally.
websocket_disconnect(t) ==
    /\ tasks[t].pc \in {"ws_verify", "ws_close", "ws_receive", "ws_query"}
    /\ UNCHANGED <<mem, db, seq>>
    /\ active_connections' = websocket_finally(t)
    /\ tasks' = Done(tasks, t, "disconnected")

Next ==
    \E t \in Tasks :
        \/ api_create_instance(t)
        \/ api_create_instance_refresh(t)
        \/ api_create_instance_error(t)
        \/ start_instance_db(t)
        \/ terminate_instance_db(t)
        \/ lock_wake(t)
        \/ api_delete_instance_load(t)
        \/ api_delete_instance_commit(t)
        \/ api_update_instance_refresh(t)
        \/ query_instance_commit(t)
        \/ query_instance_end(t)
        \/ query_instance_fault(t)
        \/ query_instance_complete(t)
        \/ query_instance_error(t)
        \/ \E message \in Events : query_instance_message(t, message)
        \/ \E id \in Created : api_delete_instance(t, id)
        \/ \E id \in Created : api_restart_instance(t, id)
        \/ \E id \in Created : api_update_instance(t, id)
        \/ \E id \in Created : api_query_instance(t, id)

Spec == Init /\ [][Next]_vars

\* The server driven by one client that awaits each response before it sends
\* its next request (create, delete or restart): no request is being served
\* when a request arrives, so no call ever waits for the lock.
Quiet == \A u \in DOMAIN tasks : tasks[u].pc \in {"idle", "done"}
SerialNext ==
    \E t \in SerialTasks :
        \/ Quiet /\ api_create_instance(t)
        \/ api_create_instance_refresh(t)
        \/ api_create_instance_error(t)
        \/ start_instance_db(t)
        \/ terminate_instance_db(t)
        \/ api_delete_instance_load(t)
        \/ api_delete_instance_commit(t)
        \/ \E id \in Created : Quiet /\ api_delete_instance(t, id)
        \/ \E id \in Created : Quiet /\ api_restart_instance(t, id)
SerialSpec == Init /\ [][SerialNext]_vars

\* The REST handlers together with the two WebSocket endpoints.
WsNext ==
    \/ Next
    \/ \E t \in Tasks :
        \/ websocket_verify(t)
        \/ websocket_close(t)
        \/ websocket_query(t)
        \/ websocket_disconnect(t)
        \/ \E type \in ControlTypes : websocket_receive(t, type)
        \/ \E id \in Created \cup {NoSuchId} : websocket_stream_endpoint(t, id)
        \/ \E id \in Created \cup {NoSuchId} : websocket_interact_endpoint(t, id)
WsSpec == Init /\ [][WsNext]_vars

\* The event loop resumes every coroutine whose await has completed, and
\* storage calls, lock hand-overs and sends to a connected client complete.
\* Nothing makes a client send a request or go away, and nothing makes the
\* agent's stream yield, end or raise.
Fairness ==
    \A t \in Tasks :
        /\ WF_vars(api_create_instance_refresh(t))
        /\ WF_vars(api_create_instance_error(t))
        /\ WF_vars(start_instance_db(t))
        /\ WF_vars(terminate_instance_db(t))
        /\ WF_vars(lock_wake(t))
        /\ WF_vars(api_delete_instance_load(t))
        /\ WF_vars(api_delete_instance_commit(t))
        /\ WF_vars(api_update_instance_refresh(t))
        /\ WF_vars(query_instance_commit(t))
        /\ WF_vars(query_instance_complete(t))
        /\ WF_vars(query_instance_error(t))
        /\ WF_vars(websocket_verify(t))
        /\ WF_vars(websocket_close(t))
        /\ WF_vars(websocket_query(t))
FairSpec == WsSpec /\ Fairness

\* The lifecycle routes alone (create, delete, restart, update), with one more
\* concurrent request than Spec: enough for a restart beside requests that
\* fill the registry.
LifecycleNext ==
    \E t \in LifecycleTasks :
        \/ api_create_instance(t)
        \/ api_create_instance_refresh(t)
        \/ api_create_instance_error(t)
        \/ start_instance_db(t)
        \/ terminate_instance_db(t)
        \/ lock_wake(t)
        \/ api_delete_instance_load(t)
        \/ api_delete_instance_commit(t)
        \/ api_update_instance_refresh(t)
        \/ \E id \in Created : api_delete_instance(t, id)
        \/ \E id \in Created : api_restart_instance(t, id)
        \/ \E id \in Created : api_update_instance(t, id)

LifecycleSpec == Init /\ [][LifecycleNext]_vars

\* The server started on the storage an earlier run left: the registry is
\* empty, and the table holds the row of an instance that was terminated more
\* than an hour ago (its restart failed, or the process was stopped).
CleanupInit ==
    /\ instances = <<>>
    /\ handles = <<>>
    /\ lock_holder = None
    /\ waiters = <<>>
    /\ rows = (1 :> [status |-> "terminated", terminated_at |-> 1])
    /\ sessions = <<>>
    /\ messages = <<>>
    /\ now = Hour + 2
    /\ seq = [instance |-> 1, session |-> 0, message |-> 0]
    /\ active_connections = <<>>
    /\ tasks = [t \in Tasks \cup SerialTasks \cup LifecycleTasks |-> IdleTask]

\* The create, restart and update routes beside the periodic cleanup task.
CleanupNext ==
    \E t \in Tasks :
        \/ api_create_instance(t)
        \/ api_create_instance_refresh(t)
        \/ api_create_instance_error(t)
        \/ start_instance_db(t)
        \/ terminate_instance_db(t)
        \/ lock_wake(t)
        \/ api_update_instance_refresh(t)
        \/ cleanup_inactive_instances(t)
        \/ cleanup_inactive_instances_load(t)
        \/ cleanup_inactive_instances_commit(t)
        \/ \E id \in Created : api_restart_instance(t, id)
        \/ \E id \in Created : api_update_instance(t, id)

CleanupSpec == CleanupInit /\ [][CleanupNext]_vars

\* The REST routes with request tasks that may be cancelled while a query
\* waits on its stream.
CancelNext ==
    \/ Next
    \/ \E t \in Tasks : query_instance_cancelled(t)

CancelSpec == Init /\ [][CancelNext]_vars
\* ==================================================================== claims
\* The handle objects of an instance whose liveness flag is set.
live_handles(id) ==
    {h \in DOMAIN handles : handles[h].instance_id = id /\ handles[h].active}
\* Task t is the step's actor and leaves the queue of the lock in it.
Woken(t, label) == tasks[t].pc = label /\ tasks'[t].pc # label
\* Task t's call of start_instance inserts its handle in the step.
Inserts(t) == tasks'[t].pc = "start_db" /\ tasks[t].pc # "start_db"
\* Task t's call of start_instance fails with e in the step.
Fails(t, e) == tasks'[t].err = e /\ tasks[t].err # e
RegistryUnchanged == instances' = instances /\ handles' = handles

\* C1 (state): of every instance identifier at most one live handle object
\* exists, and it is the one the registry holds.
C1_OneHandle ==
    \A id \in Ids :
        live_handles(id) = IF id \in DOMAIN instances THEN {instances[id]} ELSE {}
\* C1 (step): a start_instance that gets the lock while the identifier is in
\* the registry fails with AlreadyRunning and leaves registry and handles as
\* they are; a start_instance inserts only a new handle under an identifier
\* the registry does not hold.
C1_Step ==
    \A t \in Tasks :
        /\ Woken(t, "start_wait") /\ tasks[t].id \in DOMAIN instances
              => Fails(t, "AlreadyRunning") /\ RegistryUnchanged
        /\ Fails(t, "AlreadyRunning")
              => tasks'[t].id \in DOMAIN instances /\ RegistryUnchanged
        /\ Inserts(t)
              => /\ tasks'[t].id \notin DOMAIN instances
                 /\ handles' = Append(handles, ClaudeInstance(tasks'[t].id))
                 /\ instances' = (tasks'[t].id :> Len(handles')) @@ instances
\* C1: the registry holds at most one handle per instance identifier, and of
\* start_instance calls racing on one identifier one inserts a handle and the
\* others fail with AlreadyRunning without replacing or duplicating it.
C1_AtMostOneHandle == []C1_OneHandle /\ [][C1_Step]_vars
\* Two restarts of one instance raced: one inserted the handle the registry
\* holds, the other failed with AlreadyRunning.
C1_Witness ==
    \E t, u \in Tasks :
        /\ t # u
        /\ tasks[t].id = tasks[u].id
        /\ tasks[t].op = "restart" /\ tasks[u].op = "restart"
        /\ tasks[t].pc = "done" /\ tasks[t].err = "AlreadyRunning"
        /\ tasks[u].pc = "done" /\ tasks[u].err = "ok"
        /\ tasks[t].id \in DOMAIN instances

\* C2 (state): the registry never holds more than max_instances handles, and
\* no more than that many handle objects are live.
C2_WithinCapacity ==
    /\ Cardinality(DOMAIN instances) <= max_instances
    /\ Cardinality({h \in DOMAIN handles : handles[h].active}) <= max_instances
\* C2 (step): a start_instance that gets the lock with the registry full fails
\* with CapacityExceeded (AlreadyRunning for an identifier it holds), and a
\* failing start_instance registers nothing.
C2_Step ==
    \A t \in Tasks :
        /\ Woken(t, "start_wait") /\ Cardinality(DOMAIN instances) >= max_instances
              => /\ Fails(t, IF tasks[t].id \in DOMAIN instances
                             THEN "AlreadyRunning" ELSE "CapacityExceeded")
                 /\ RegistryUnchanged
        /\ Fails(t, "CapacityExceeded")
              => Cardinality(DOMAIN instances) >= max_instances /\ RegistryUnchanged
        /\ Inserts(t) => Cardinality(DOMAIN instances) < max_instances
\* C2: start_instance with the registry at max_instances fails with
\* CapacityExceeded and registers nothing, so the registry never exceeds
\* max_instances under any interleaving of start, terminate and restart.
C2_CapacityBound == []C2_WithinCapacity /\ [][C2_Step]_vars
\* A create_instance found the registry full and failed with CapacityExceeded.
C2_Witness ==
    \E t \in Tasks :
        /\ tasks[t].op = "create"
        /\ tasks[t].err = "CapacityExceeded"
        /\ Cardinality(DOMAIN instances) = max_instances
        /\ tasks[t].id \notin DOMAIN instances
\* A query of task t is unresolved: query_instance has been entered and has
\* neither returned nor raised.
InFlight(t) ==
    tasks[t].pc \in {"query_commit", "query_stream", "query_complete",
                     "query_error_commit"}
\* The messages of a session, in the order of their keys.
session_messages(sid) ==
    LET of_session(msg) == msg.session_id = sid IN SelectSeq(messages, of_session)

\* C3: a query_instance issued while an earlier query on the same handle is
\* unresolved is rejected with Busy and creates no session row: of one
\* instance no two queries are in flight and no two sessions are `active`.
C3_OneQueryInFlight ==
    \A id \in Ids :
        /\ Cardinality({t \in Tasks : InFlight(t) /\ tasks[t].id = id}) <= 1
        /\ Cardinality({sid \in DOMAIN sessions :
                          /\ sessions[sid].instance_id = id
                          /\ sessions[sid].status = "active"}) <= 1

\* C4: once a query on a handle has resolved, by completion or by a fault, the
\* handle's current session is clear: a handle names a current session only
\* while the query of that session is in flight on it.
C4_BusyCleared ==
    \A h \in DOMAIN handles :
        handles[h].current_session_id # None
            => \E t \in Tasks : /\ InFlight(t)
                                /\ tasks[t].handle = h
                                /\ tasks[t].session_id = handles[h].current_session_id

\* C5: a query whose stream raised ends with its session persisted as `error`
\* (not `completed`, not `active`), and the fault reaches the caller: no
\* query_instance returns normally over a session in `error`.
C5_FaultGivesError ==
    \A t \in Tasks :
        tasks[t].op = "query" /\ tasks[t].pc = "done"
        /\ tasks[t].session_id \in DOMAIN sessions
            => /\ tasks[t].err = "AgentFault"
                    => sessions[tasks[t].session_id].status = "error"
               /\ sessions[tasks[t].session_id].status = "error"
                    => tasks[t].err # "ok"
               /\ sessions[tasks[t].session_id].status # "active"
\* A query ended by a fault of the stream, its session row in `error`.
C5_Witness ==
    \E t \in Tasks :
        /\ tasks[t].op = "query" /\ tasks[t].pc = "done"
        /\ tasks[t].err = "AgentFault"
        /\ tasks[t].session_id \in DOMAIN sessions
        /\ sessions[tasks[t].session_id].status = "error"

\* Task t's call of terminate_instance returns to api delete_instance in the
\* step.
TerminateReturns(t) ==
    /\ tasks'[t].op = "delete"
    /\ tasks'[t].pc = "delete_load"
    /\ \/ tasks[t].pc \in {"terminate_wait", "terminate_db"}
       \/ tasks[t].pc = "idle" /\ rows[tasks'[t].id].status = "active"
\* C6: terminate_instance is idempotent. On a live instance it marks the
\* handle inactive and removes it, then records `terminated` with the time;
\* on an identifier the registry does not hold it raises nothing and changes
\* neither the registry nor the row (its termination time included); either
\* way it returns with the registry not holding the identifier.
C6_TerminateIdempotent ==
    [][\A t \in Tasks :
        LET id == tasks[t].id IN
        /\ Woken(t, "terminate_wait") /\ id \notin DOMAIN instances
              => /\ rows' = rows
                 /\ tasks'[t].pc # "terminate_db"
                 /\ ~Fails(t, "RowMissing")
                 /\ \A h \in DOMAIN handles : handles'[h] = handles[h]
                 /\ tasks[t].op = "delete"
                        => RegistryUnchanged /\ tasks'[t].pc = "delete_load"
        /\ Woken(t, "terminate_wait") /\ id \in DOMAIN instances
              => /\ tasks'[t].pc = "terminate_db"
                 /\ ~handles'[instances[id]].active
                 /\ instances' = Without(instances, id)
        /\ Woken(t, "terminate_db") /\ id \in DOMAIN rows
              => rows' = [rows EXCEPT ![id] =
                            [status |-> "terminated", terminated_at |-> now]]
        /\ TerminateReturns(t) => tasks'[t].id \notin DOMAIN instances'
      ]_vars
\* Two delete_instance requests both called terminate_instance for one
\* instance: the second call found no entry and returned; the row keeps the
\* one termination time.
C6_Witness ==
    \E t, u \in Tasks :
        /\ t # u
        /\ tasks[t].op = "delete" /\ tasks[u].op = "delete"
        /\ tasks[t].id = tasks[u].id
        /\ tasks[t].pc = "delete_load" /\ tasks[u].pc = "delete_load"
        /\ tasks[t].id \notin DOMAIN instances
        /\ tasks[t].id \in DOMAIN rows
        /\ rows[tasks[t].id].status = "terminated"
        /\ rows[tasks[t].id].terminated_at # None
        /\ \E h \in DOMAIN handles :
              handles[h].instance_id = tasks[t].id /\ ~handles[h].active

\* C7: restart_instance is atomic for its identifier: concurrent restarts
\* never race into a double start, none of them fails with AlreadyRunning.
C7_RestartAtomic ==
    \A t \in Tasks :
        tasks[t].op \in {"restart", "update"} => tasks[t].err # "AlreadyRunning"

\* A start, terminate or restart of the instance is mid-execution.
Lifecycle(id) ==
    \E t \in Tasks :
        /\ tasks[t].id = id
        /\ tasks[t].op \in {"create", "delete", "restart", "update"}
        /\ tasks[t].pc \notin {"idle", "done"}
\* C8: with no start, terminate or restart of an instance mid-execution, its
\* row says `active` exactly if the registry holds a live handle for it.
C8_RowMatchesRegistry ==
    \A id \in Ids :
        ~Lifecycle(id)
            => ((id \in DOMAIN rows /\ rows[id].status = "active")
                <=> (id \in DOMAIN instances /\ handles[instances[id]].active))

\* C9: a `completed` session has an even number of messages, at least 2, the
\* first of role user, the last of role assistant, times non-decreasing; the
\* user message is persisted before the stream is consumed, the assistant
\* message only together with the `completed` status.
C9_CompletedTranscript ==
    /\ \A sid \in DOMAIN sessions :
          LET ms == session_messages(sid) IN
          /\ sessions[sid].status = "completed"
                => /\ Len(ms) >= 2 /\ Len(ms) % 2 = 0
                   /\ ms[1].role = "user"
                   /\ ms[Len(ms)].role = "assistant"
                   /\ \A i \in 1..(Len(ms) - 1) : ms[i].timestamp <= ms[i + 1].timestamp
          /\ sessions[sid].status # "completed"
                => \A i \in DOMAIN ms : ms[i].role # "assistant"
    /\ \A t \in Tasks :
          tasks[t].pc \in {"query_stream", "query_complete"}
          /\ tasks[t].session_id \in DOMAIN sessions
                => \E i \in DOMAIN messages :
                      /\ messages[i].session_id = tasks[t].session_id
                      /\ messages[i].role = "user"
\* A session is `completed` and holds its two messages.
C9_Witness ==
    \E sid \in DOMAIN sessions :
        /\ sessions[sid].status = "completed"
        /\ Len(session_messages(sid)) = 2

\* Task t's query completes normally in the step.
Completes(t) ==
    tasks[t].pc = "query_complete" /\ tasks'[t].pc = "done" /\ tasks'[t].err = "ok"
\* The texts one after the other, `sep` between consecutive ones.
Separated(parts, sep) ==
    LET upto[i \in 0..Len(parts)] ==
            IF i = 0 THEN ""
            ELSE IF i = 1 THEN parts[1]
            ELSE upto[i - 1] \o sep \o parts[i]
    IN upto[Len(parts)]
\* The step persists exactly one message, an assistant message of t's session
\* with this content, and the session is `completed` after it.
PersistsAssistant(t, content) ==
    /\ Len(messages') = Len(messages) + 1
    /\ messages'[Len(messages')].session_id = tasks[t].session_id
    /\ messages'[Len(messages')].role = "assistant"
    /\ messages'[Len(messages')].content = content
    /\ \A i \in DOMAIN messages : messages'[i] = messages[i]
    /\ sessions'[tasks[t].session_id].status = "completed"
StartsNew(t) ==
    LET id == tasks'[t].id IN
    /\ id \in DOMAIN rows /\ id \notin DOMAIN instances
    /\ \/ tasks[t].pc = "create_refresh" /\ tasks'[t].pc # "create_refresh"
       \/ tasks[t].pc = "idle" /\ tasks'[t].op = "restart"
       \/ /\ tasks[t].pc = "terminate_db" /\ tasks'[t].pc # "terminate_db"
          /\ tasks[t].op = "restart"
\* Task t calls terminate_instance in the step for an identifier the registry
\* holds, and no other request is being served.
TerminatesLive(t) ==
    /\ tasks[t].pc = "idle"
    /\ tasks'[t].op \in {"delete", "restart"}
    /\ tasks'[t].pc = "terminate_db"
\* C11: a slot freed by terminate_instance is reusable. Requests served one
\* after the other: start_instance of a new identifier fails with
\* CapacityExceeded exactly when the registry holds max_instances handles and
\* inserts its handle otherwise; terminate_instance of a live instance leaves
\* the registry with one handle less, so the start that failed succeeds after.
C11_SlotReusable ==
    [][\A t \in SerialTasks :
        /\ StartsNew(t)
              => IF Cardinality(DOMAIN instances) >= max_instances
                 THEN Fails(t, "CapacityExceeded") /\ RegistryUnchanged
                 ELSE /\ Inserts(t)
                      /\ DOMAIN instances' = DOMAIN instances \cup {tasks'[t].id}
        /\ TerminatesLive(t)
              => DOMAIN instances' = DOMAIN instances \ {tasks'[t].id}
                 /\ Cardinality(DOMAIN instances') < max_instances
      ]_vars
\* With the registry full the start of a new instance failed with
\* CapacityExceeded; a delete_instance then terminated another, live,
\* instance; the restart of the one that had failed then started it.
C11_Witness ==
    \E t, u, v \in SerialTasks :
        /\ t < u /\ u < v
        /\ tasks[t].op = "create" /\ tasks[t].pc = "done"
        /\ tasks[t].err = "CapacityExceeded"
        /\ tasks[u].op = "delete" /\ tasks[u].pc = "done" /\ tasks[u].err = "ok"
        /\ tasks[u].id # tasks[t].id
        /\ \E h \in DOMAIN handles :
              handles[h].instance_id = tasks[u].id /\ ~handles[h].active
        /\ tasks[v].op = "restart" /\ tasks[v].pc = "done" /\ tasks[v].err = "ok"
        /\ tasks[v].id = tasks[t].id
        /\ tasks[v].id \in DOMAIN instances
        /\ Cardinality(DOMAIN instances) = max_instances

\* Task t's query request arrives in the step.
QueryArrives(t) == tasks[t].pc = "idle" /\ tasks'[t].op = "query"
\* C13: query_instance for an identifier with no handle in the registry fails
\* with NotFound (the handler answers 404 or 400 before it when the row is
\* missing or not `active`), creates no session and no message, and touches
\* no handle; every query in flight holds a handle.
C13_QueryNotFound ==
    /\ [](\A t \in Tasks : InFlight(t) => tasks[t].handle \in DOMAIN handles)
    /\ [][\A t \in Tasks :
            LET id == tasks'[t].id IN
            QueryArrives(t) /\ id \notin DOMAIN instances
              => /\ tasks'[t].pc = "done"
                 /\ tasks'[t].err = IF id \notin DOMAIN rows THEN "404"
                                    ELSE IF rows[id].status # "active" THEN "400"
                                    ELSE "NotFound"
                 /\ tasks'[t].session_id = None
                 /\ UNCHANGED <<sessions, messages, handles, instances, seq>>
        ]_vars
\* A query found the row `active` and the registry without the handle, and
\* failed with NotFound; no session was opened for it.
C13_Witness ==
    \E t \in Tasks :
        /\ tasks[t].op = "query" /\ tasks[t].pc = "done"
        /\ tasks[t].err = "NotFound"
        /\ tasks[t].id \notin DOMAIN instances
        /\ sessions = <<>>
        /\ messages = <<>>

\* C15: a query whose handle is terminated, or replaced by a restart, while it
\* is in flight ends with its session in `error`: no session becomes
\* `completed` once its handle has left the registry.
C15_DeadHandleGivesError ==
    [][\A t \in Tasks :
        Completes(t)
          => /\ handles[tasks[t].handle].active
             /\ tasks[t].id \in DOMAIN instances
             /\ instances[tasks[t].id] = tasks[t].handle
      ]_vars

\* C20: the registry's lock is held for in-memory edits only: no task holds
\* ClaudeManager._lock while it waits on storage (the read and the commit of
\* the instance row in start_instance and terminate_instance).
C20_LockShortHeld ==
    \A t \in Tasks :
        lock_holder = t => tasks[t].pc \notin {"start_db", "terminate_db"}

\* Task t serves a WebSocket connection.
Channel(t) == tasks[t].op \in {"ws_stream", "ws_interact"}
\* The connection of task t was refused: the error event has been sent.
Refused(t) ==
    /\ Channel(t)
    /\ \/ tasks[t].pc = "ws_close"
       \/ tasks[t].pc = "done" /\ tasks[t].err = "rejected"
\* C12: a connection to either endpoint for an instance whose row is missing
\* or not `active` gets one event, of type error, and no status event; the
\* channel is then closed, and no control message is ever read on it.
C12_RefusedChannel ==
    /\ [](\A t \in Tasks :
            Refused(t) => /\ Len(tasks[t].sent) = 1
                          /\ tasks[t].sent[1].type = "error"
                          /\ ~tasks[t].read)
    /\ [][\A t \in Tasks :
            /\ ( /\ tasks[t].pc = "ws_verify"
                 /\ tasks'[t].pc \notin {"ws_verify", "done"}
                 /\ \/ tasks[t].id \notin DOMAIN rows
                    \/ rows[tasks[t].id].status # "active" )
                  => Refused(t)'
            /\ tasks[t].pc = "ws_close"
                  => /\ tasks'[t].pc \in {"ws_close", "done"}
                     /\ tasks'[t].sent = tasks[t].sent
                     /\ tasks'[t].read = tasks[t].read
        ]_vars
\* Both endpoints have refused a connection and closed it: one for an id
\* without a row, one for an instance whose row is there and not `active`.
C12_Witness ==
    \E t, u \in Tasks :
        /\ tasks[t].op = "ws_stream" /\ tasks[u].op = "ws_interact"
        /\ tasks[t].pc = "done" /\ tasks[t].err = "rejected"
        /\ tasks[u].pc = "done" /\ tasks[u].err = "rejected"
        /\ \E c \in {t, u} : tasks[c].id \notin DOMAIN rows
        /\ \E c \in {t, u} : /\ tasks[c].id \in DOMAIN rows
                              /\ rows[tasks[c].id].status # "active"

\* The endpoint of task t has exited.
Closed(t) == Channel(t) /\ tasks[t].pc = "done"
\* C17: when a WebSocket channel ends, by refusal at connect, by the client
\* going away or by an exception, its endpoint leaves active_connections
\* with no entry for the closed connection, and no handle marked as serving
\* a query of the channel: no step of an endpoint touches a handle or the
\* registry, and no channel holds a handle.
C17_ChannelReleased ==
    /\ [](\A t \in Tasks :
            /\ Closed(t)
                  => \A id \in DOMAIN active_connections : active_connections[id] # t
            /\ Channel(t) => tasks[t].handle = None /\ tasks[t].session_id = None)
    /\ [][\A t \in Tasks :
            Channel(t)' /\ tasks'[t] # tasks[t]
              => UNCHANGED <<instances, handles, sessions>>
        ]_vars
\* A stream channel that was registered, served a control message and ended
\* when its client went away, and another that was registered and refused:
\* neither is in active_connections any more.
C17_Witness ==
    \E t, u \in Tasks :
        /\ tasks[t].op = "ws_stream" /\ tasks[u].op = "ws_stream"
        /\ Closed(t) /\ tasks[t].err = "disconnected" /\ tasks[t].read
        /\ Closed(u) /\ tasks[u].err = "rejected"
        /\ active_connections = <<>>

\* The query that task t read on its channel has been answered: the endpoint
\* waits for the next control message, the last event it sent being the
\* error event or the completion status.
Answered(t) ==
    /\ tasks[t].pc = "ws_receive"
    /\ tasks[t].sent # <<>>
    /\ LET last == tasks[t].sent[Len(tasks[t].sent)] IN
       \/ last.type = "error"
       \/ last.type = "status" /\ last.data = "Query completed"
\* C18: every query read on an interactive channel is answered, by the
\* completion event or by an error event, unless the connection is dropped;
\* the channel does not stay in its streaming state, and after an error it
\* is back at reading control messages.
C18_QueryAnswered ==
    /\ \A t \in Tasks : (tasks[t].pc = "ws_query") ~> (Answered(t) \/ Closed(t))
    /\ [][\A t \in Tasks :
            tasks[t].pc = "ws_query" /\ tasks'[t].pc # "ws_query"
              => Answered(t)' \/ Closed(t)'
        ]_vars
\* An interactive channel read a query, answered it with an error event
\* after the acknowledgement, and waits for the next control message.
C18_Witness ==
    \E t \in Tasks :
        /\ tasks[t].op = "ws_interact"
        /\ tasks[t].pc = "ws_receive"
        /\ tasks[t].read
        /\ Len(tasks[t].sent) = 2
        /\ tasks[t].sent[1] = WSEvent("status", "Processing query...")
        /\ tasks[t].sent[2].type = "error"

\* C14: every query is bounded by the configured maximum duration: a query
\* whose stream never ends is ended as a fault once the limit is exceeded,
\* so no query stays in flight forever.
C14_QueryBounded ==
    \A t \in Tasks : InFlight(t) ~> ~InFlight(t)

\* C16: queries through the REST endpoint and through the interactive
\* WebSocket endpoint share one busy flag per handle, so that of one instance
\* at most one query, from either entry point, is consuming the handle's
\* stream at a time.
C16_OneStreamPerInstance ==
    \A id \in Ids :
        Cardinality({t \in Tasks : /\ tasks[t].id = id
                                   /\ tasks[t].pc \in {"query_stream", "ws_output"}}) <= 1

\* A fault of the handle reaches task t's query in the step, or is handled in
\* it: the stream raises into query_instance, query_instance records the
\* error and re-raises, or the interact endpoint answers a failed query.
FaultStep(t) ==
    \/ tasks[t].pc = "query_stream" /\ tasks'[t].pc = "query_error_commit"
    \/ tasks[t].pc = "query_error_commit" /\ tasks'[t].pc = "done"
    \/ tasks[t].pc = "ws_query" /\ tasks'[t].pc = "ws_receive"
StreamOpen(t) == tasks[t].op = "ws_stream" /\ tasks[t].pc = "ws_receive"

\* The instance of channel t was started through the REST routes and is
\* `active`: the registry of api/instances.py holds a live handle for it and
\* its row says `active`.
StartedViaRest(t) ==
    /\ tasks[t].id \in DOMAIN instances
    /\ handles[instances[tasks[t].id]].active
    /\ tasks[t].id \in DOMAIN rows
    /\ rows[tasks[t].id].status = "active"
\* The last event sent on channel t after the step.
LastSent(t) == tasks'[t].sent[Len(tasks'[t].sent)]

\* C22: the WebSocket endpoints look handles up in the registry the REST
\* routes fill: a `query` control message for an instance started via REST
\* and `active` is not answered with 'Instance not found in manager', and a
\* `status` control message for it is answered with `active`.
C22_SharedRegistry ==
    [][\A t \in Tasks :
         /\ (/\ tasks[t].pc = "ws_query"
             /\ tasks'[t].pc \notin {"ws_query", "done"}
             /\ StartedViaRest(t))
               => LastSent(t) # WSEvent("error",
                                   "Query error: Instance not found in manager")
         /\ (/\ StreamOpen(t)
             /\ tasks'[t].sent # <<>>
             /\ tasks'[t].sent # tasks[t].sent
             /\ LastSent(t).type = "status"
             /\ StartedViaRest(t))
               => LastSent(t).data = "active"
      ]_vars

\* ------------------------------------------------------------------- C24
\* C24: in every state every handle in the registry has its liveness flag
\* set; so get_instance_status answers `active` exactly for the identifiers
\* in the registry and `terminated` for all others, never `inactive`, and
\* cleanup_terminated_instances removes no entry.
C24_RegisteredMeansLive ==
    /\ \A id \in DOMAIN instances : handles[instances[id]].active
    /\ \A id \in Ids \cup {NoSuchId} :
          get_instance_status(instances, id) =
              IF id \in DOMAIN instances THEN "active" ELSE "terminated"
    /\ cleanup_terminated_instances(instances) = instances
\* One instance has been terminated, its storage update still awaited (other
\* tasks run in this state), while another instance is registered: the status
\* of the first is `terminated`, of the second `active`.
C24_Witness ==
    \E t \in Tasks :
        /\ tasks[t].pc = "terminate_db"
        /\ \E h \in DOMAIN handles :
              handles[h].instance_id = tasks[t].id /\ ~handles[h].active
        /\ get_instance_status(instances, tasks[t].id) = "terminated"
        /\ \E b \in DOMAIN instances : get_instance_status(instances, b) = "active"

\* ------------------------------------------------------------------- C23
\* C23: deleting an instance cascades to all its dependents under any
\* interleaving: in every state every persisted message refers to an existing
\* session and every session to an existing instance row, so nothing that
\* belonged to a deleted instance outlives the delete.
C23_CascadeComplete ==
    /\ \A s \in DOMAIN sessions : sessions[s].instance_id \in DOMAIN rows
    /\ \A i \in DOMAIN messages : messages[i].session_id \in DOMAIN sessions

\* ------------------------------------------------------------------- C25
\* start_instance raises out of its storage update for request t.
StartUpdateRaises(t) == tasks[t].pc = "start_db" /\ tasks'[t].err \notin {"none", "ok"}

\* C25: when start_instance raises, whatever the reason (the failure of its
\* storage update included), the registry holds no handle for the identifier
\* that the failed call added.
C25_FailedStartLeavesNoHandle ==
    [][\A t \in Tasks :
         /\ StartUpdateRaises(t) => tasks[t].id \notin DOMAIN instances'
         /\ (\E e \in {"AlreadyRunning", "CapacityExceeded"} : Fails(t, e))
               => RegistryUnchanged]_vars

\* ------------------------------------------------------------------- C26
\* C26: a restart_instance that found a live handle for its identifier and
\* terminated it never ends with CapacityExceeded: no other caller takes the
\* slot its terminate step freed before its start step.
C26_RestartKeepsSlot ==
    \A t \in LifecycleTasks :
        ~ /\ tasks[t].op \in {"restart", "update"}
          /\ tasks[t].handle # None
          /\ tasks[t].err = "CapacityExceeded"

\* ------------------------------------------------------------------- C27
\* C27: once a query_instance call has ended (it returned, raised, or its
\* task was cancelled while waiting on the stream) the session row it created
\* is `completed` or `error`: no ended call leaves a session `active`.
C27_EndedQueryLeavesNoActiveSession ==
    \A t \in Tasks :
        (/\ tasks[t].op = "query"
         /\ tasks[t].pc = "done"
         /\ tasks[t].session_id \in DOMAIN sessions)
            => sessions[tasks[t].session_id].status \in {"completed", "error"}

\* ------------------------------------------------------------------- C28
\* The stream of request t raises in the step, text fragments already
\* received from it.
FaultAfterText(t) ==
    /\ tasks[t].pc = "query_stream" /\ tasks'[t].pc = "query_error_commit"
    /\ tasks[t].response_content # <<>>

\* C28: a session with status `error` has exactly one persisted message, the
\* user prompt; the fault of a stream that had already given text writes no
\* message, and neither does the commit of the `error` status.
C28_ErrorSessionMessages ==
    \A sid \in DOMAIN sessions :
        sessions[sid].status = "error"
            => /\ Len(session_messages(sid)) = 1
               /\ session_messages(sid)[1].role = "user"
               /\ session_messages(sid)[1].content = Prompt
C28_Step ==
    \A t \in Tasks :
        FaultAfterText(t) \/ (tasks[t].pc = "query_error_commit" /\ tasks'[t].pc = "done")
            => messages' = messages
C28_ErrorSessionHasPromptOnly == []C28_ErrorSessionMessages /\ [][C28_Step]_vars
\* A query ended by a fault of its stream: its session is `error` and holds
\* the user prompt as its only message, beside a completed session of the
\* same instance that has its assistant message.
C28_Witness ==
    \E t \in Tasks :
        /\ tasks[t].op = "query" /\ tasks[t].pc = "done"
        /\ tasks[t].err = "AgentFault"
        /\ tasks[t].session_id \in DOMAIN sessions
        /\ sessions[tasks[t].session_id].status = "error"
        /\ Len(session_messages(tasks[t].session_id)) = 1
        /\ \E sid \in DOMAIN sessions :
              /\ sessions[sid].status = "completed"
              /\ Len(session_messages(sid)) = 2

\* ------------------------------------------------------------------- C30
\* C30: while a stream-endpoint connection of an instance is open and has
\* received its connected status, active_connections maps the instance to an
\* open connection, whatever later connections for the same instance do; and
\* no entry refers to a connection that has been closed.
C30_StreamStaysRegistered ==
    /\ \A t \in Tasks :
          StreamOpen(t)
            => /\ tasks[t].id \in DOMAIN active_connections
               /\ tasks[active_connections[tasks[t].id]].pc # "done"
    /\ \A id \in DOMAIN active_connections :
          tasks[active_connections[id]].pc # "done"

\* ------------------------------------------------------------------- C29
\* C29: the periodic cleanup never deletes the row of an instance that has a
\* live handle in the registry, and a start or restart that has inserted a
\* handle finds its row when it reports `active`.
C29_CleanupSparesLiveInstances ==
    [][\A t \in Tasks :
         /\ (tasks[t].pc = "cleanup_commit" /\ tasks'[t].pc = "done")
               => \A id \in tasks[t].terminated_instances :
                     id \in DOMAIN rows => live_handles(id) = {}
         /\ tasks[t].pc = "start_db" => ~Fails(t, "RowMissing")
      ]_vars

====
